---- MODULE Spec2Model ----
\* Model of src/windmill_enhanced.cpp: the global mode flags, the Windmill
\* static members, the Scene container with its heap-allocated entities, and
\* the two GLUT callbacks that change state (timer and keyboard).
\*
\* Every float of the program is a fixed-point integer in units of 0.05
\* (one twentieth): 0.3f is 6, 0.5f is 10, 2.0f is 40, 15.0f is 300,
\* 360.0f is 7200, 450.0f is 9000.  Rotation speeds and blade angles are
\* multiples of 0.5 below 375 and so exact in float as well; cloud positions
\* and the celestial angle add 0.25f .. 0.5f steps, whose float rounding the
\* model leaves out (the comparisons and the values assigned at a wrap, -450
\* and 0, are the code's).
EXTENDS Integers, Sequences, FiniteSets, TLC

\* ---------------------------------------------------------------- bounds
\* Callbacks (key presses and timer ticks) explored after the program's start,
\* and after each of the mid-run states of RunScripts.
MaxEvents == 4
MaxRunEvents == 2
\* Calls of Scene's member functions explored on a freshly constructed Scene.
MaxSceneCalls == 4

\* ------------------------------------------------------ program constants
WrapRight == 9000
WrapLeft == -9000
BandLow == 3000
BandHigh == 5600
CloudSpeedLow == 4
CloudSpeedHigh == 10
PhaseStep == 6
FullTurn == 7200
InitSpeed == 40
SpeedStep == 10
MinSpeed == 10
MaxSpeed == 300
NULL == 0

VARIABLES
    isDay,              \* bool isDay
    isPaused,           \* bool isPaused
    animateCelestial,   \* bool animateCelestial
    windmillCount,      \* static int Windmill::windmillCount
    selectedWindmill,   \* static int Windmill::selectedWindmill
    heap,               \* live objects created by new: address -> fields
    nextAddr,           \* the address the next new expression returns
    released,           \* the addresses delete has been applied to, in order
    retiredIds,         \* the ids of the windmills ~Windmill() has destroyed
    objects,            \* Scene::objects   (vector<Drawable*>)
    windmills,          \* Scene::windmills (vector<Windmill*>)
    clouds,             \* Scene::clouds    (vector<Cloud*>)
    celestialBody,      \* Scene::celestialBody
    running,            \* FALSE once exit(0) has been called
    lastEvent,          \* the callback GLUT dispatched last
    budget              \* callbacks the exploration may still dispatch

vars == <<isDay, isPaused, animateCelestial, windmillCount, selectedWindmill,
          heap, nextAddr, released, retiredIds, objects, windmills, clouds,
          celestialBody, running, lastEvent, budget>>

modeVars == <<isDay, isPaused, animateCelestial>>
sceneVars == <<heap, nextAddr, released, retiredIds, objects, windmills, clouds,
               celestialBody, windmillCount>>

Range(s) == {s[i] : i \in 1..Len(s)}

\* randomFloat(min, max): rand() ranges over 0..RAND_MAX, so the result ranges
\* over [min, max], both ends included; the model draws the two ends.
RandomFloat(min, max) == {min, max}

\* ---------------------------------------------------------------- entities
NewCloud(posX, posY, spd, sz) ==
    [kind |-> "Cloud", x |-> posX, y |-> posY, visible |-> TRUE,
     speed |-> spd, size |-> sz]

NewCelestialBody(posX, posY, rad, col) ==
    [kind |-> "CelestialBody", x |-> posX, y |-> posY, visible |-> TRUE,
     radius |-> rad, angle |-> 0, color |-> col]

\* The constructor's initializer list; count is windmillCount after the ++.
NewWindmill(posX, posY, tWidth, tHeight, bLength, blades, count) ==
    [kind |-> "Windmill", x |-> posX, y |-> posY, visible |-> TRUE,
     bladeAngle |-> 0, rotationSpeed |-> InitSpeed, isRotating |-> TRUE,
     towerWidth |-> tWidth, towerHeight |-> tHeight, bladeLength |-> bLength,
     numBlades |-> blades, id |-> count]

\* Each update is the set of objects the call can leave behind: one object,
\* except where the call draws a random number.

\* Cloud::update carrying the overshoot over to the left edge.
CloudUpdateCarry(c) ==
    IF isPaused THEN {c}
    ELSE LET moved == c.x + c.speed
         IN  IF moved > WrapRight
             THEN {[c EXCEPT !.x = moved - 2 * WrapRight, !.y = rnd] :
                       rnd \in RandomFloat(BandLow, BandHigh)}
             ELSE {[c EXCEPT !.x = moved]}

\* Cloud::update
CloudUpdate(c) ==
    IF isPaused THEN {c}
    ELSE LET moved == c.x + c.speed
         IN  IF moved > WrapRight
             THEN {[c EXCEPT !.x = WrapLeft, !.y = rnd] :
                       rnd \in RandomFloat(BandLow, BandHigh)}
             ELSE {[c EXCEPT !.x = moved]}

\* CelestialBody::update
CelestialUpdate(b) ==
    IF isPaused \/ ~animateCelestial THEN {b}
    ELSE LET turned == b.angle + PhaseStep
         IN  {[b EXCEPT !.angle = IF turned >= FullTurn THEN 0 ELSE turned]}

\* Windmill::update without the isPaused test.
WindmillUpdateNoPause(w) ==
    IF ~w.isRotating THEN {w}
    ELSE LET turned == w.bladeAngle + w.rotationSpeed
         IN  {[w EXCEPT !.bladeAngle =
                   IF turned >= FullTurn THEN turned - FullTurn ELSE turned]}

\* Windmill::update without the wrap at 360.
WindmillUpdateNoWrap(w) ==
    IF isPaused \/ ~w.isRotating THEN {w}
    ELSE {[w EXCEPT !.bladeAngle = w.bladeAngle + w.rotationSpeed]}

\* Windmill::update
WindmillUpdate(w) ==
    IF isPaused \/ ~w.isRotating THEN {w}
    ELSE LET turned == w.bladeAngle + w.rotationSpeed
         IN  {[w EXCEPT !.bladeAngle =
                   IF turned >= FullTurn THEN turned - FullTurn ELSE turned]}

\* obj->update(): virtual dispatch on the dynamic type.
Update(o) ==
    CASE o.kind = "Cloud" -> CloudUpdate(o)
      [] o.kind = "CelestialBody" -> CelestialUpdate(o)
      [] o.kind = "Windmill" -> WindmillUpdate(o)

\* Windmill::increaseSpeed without the clamp.
increaseSpeedNoClamp(w) ==
    [w EXCEPT !.rotationSpeed = w.rotationSpeed + SpeedStep]

\* Windmill::increaseSpeed
increaseSpeed(w) ==
    LET s == w.rotationSpeed + SpeedStep
    IN  [w EXCEPT !.rotationSpeed = IF s > MaxSpeed THEN MaxSpeed ELSE s]

\* Windmill::decreaseSpeed
decreaseSpeed(w) ==
    LET s == w.rotationSpeed - SpeedStep
    IN  [w EXCEPT !.rotationSpeed = IF s < MinSpeed THEN MinSpeed ELSE s]

\* ------------------------------------------------------------------- scene
\* Scene::updateAll: the heaps the loop over objs can leave behind, having
\* reached position i of objs with heap h.
RECURSIVE UpdateFrom(_, _, _)
UpdateFrom(h, objs, i) ==
    IF i > Len(objs) THEN {h}
    ELSE UNION {UpdateFrom([h EXCEPT ![objs[i]] = o], objs, i + 1) :
                    o \in Update(h[objs[i]])}

UpdateAll(h, objs) == UpdateFrom(h, objs, 1)

\* The objects of initScene, in the order their new expressions run.
InitObjects ==
    <<NewWindmill(-5000, -4000, 600, 2400, 1600, 4, 1),
      NewWindmill(2000, -4400, 700, 2600, 1800, 4, 2),
      NewWindmill(7000, -4200, 560, 2200, 1500, 4, 3),
      NewCloud(-6000, 4400, 6, 500),
      NewCloud(0, 5000, 5, 600),
      NewCloud(5000, 4000, 7, 560),
      NewCelestialBody(7000, 5000, 600, <<20, 19, 0>>)>>

\* ---------------------------------------------------------------- Init
\* The state when glutMainLoop starts: the globals' initializers, then
\* initScene.
Init ==
    /\ isDay = TRUE
    /\ isPaused = FALSE
    /\ animateCelestial = TRUE
    /\ windmillCount = 3
    /\ selectedWindmill = 1
    /\ heap = InitObjects
    /\ nextAddr = 8
    /\ released = <<>>
    /\ retiredIds = {}
    /\ objects = <<1, 2, 3, 4, 5, 6, 7>>
    /\ windmills = <<1, 2, 3>>
    /\ clouds = <<4, 5, 6>>
    /\ celestialBody = 7
    /\ running = TRUE
    /\ lastEvent = [type |-> "none", key |-> ""]
    /\ budget = MaxEvents

\* ---------------------------------------------------------------- timer
\* timer(): scene->updateAll().
Tick ==
    /\ running
    /\ budget > 0
    /\ heap' \in UpdateAll(heap, objects)
    /\ budget' = budget - 1
    /\ lastEvent' = [type |-> "tick", key |-> ""]
    /\ UNCHANGED <<modeVars, windmillCount, selectedWindmill, nextAddr,
                   released, retiredIds, objects, windmills, clouds,
                   celestialBody, running>>

\* ---------------------------------------------------------------- keyboard
\* What every case of keyboard() shares: the callback runs while the program
\* runs, and is counted.
KeyEvent(key) ==
    /\ running
    /\ budget > 0
    /\ budget' = budget - 1
    /\ lastEvent' = [type |-> "key", key |-> key]

DigitValue(key) ==
    CASE key = "1" -> 1 [] key = "2" -> 2 [] key = "3" -> 3
      [] key = "4" -> 4 [] key = "5" -> 5 [] key = "6" -> 6

\* case '1' .. '5' comparing with < instead of <=.
KeySelectOffByOne ==
    \E key \in {"1", "2", "3", "4", "5"} :
        /\ KeyEvent(key)
        /\ LET selection == DigitValue(key)
           IN  selectedWindmill' =
                   IF selection > 0 /\ selection < Len(windmills)
                   THEN selection ELSE selectedWindmill
        /\ UNCHANGED <<modeVars, sceneVars, running>>

\* case '1' .. '5' without the comparison with the number of windmills.
KeySelectNoCheck ==
    \E key \in {"1", "2", "3", "4", "5"} :
        /\ KeyEvent(key)
        /\ selectedWindmill' = DigitValue(key)
        /\ UNCHANGED <<modeVars, sceneVars, running>>

\* case '1' .. '5'
KeySelect ==
    \E key \in {"1", "2", "3", "4", "5"} :
        /\ KeyEvent(key)
        /\ LET selection == DigitValue(key)
           IN  selectedWindmill' =
                   IF selection > 0 /\ selection <= Len(windmills)
                   THEN selection ELSE selectedWindmill
        /\ UNCHANGED <<modeVars, sceneVars, running>>

\* The condition both speed cases test before indexing Scene::windmills.
SelectionValid ==
    /\ windmills # <<>>
    /\ selectedWindmill > 0
    /\ selectedWindmill <= Len(windmills)

\* The body of case '+', '=' addressing the first windmill, whatever is
\* selected.
IncreaseFirst(h) ==
    IF SelectionValid
    THEN [h EXCEPT ![windmills[1]] = increaseSpeed(@)]
    ELSE h

\* The heap after the body of case '+', '='.
IncreaseSelected(h) ==
    IF SelectionValid
    THEN [h EXCEPT ![windmills[selectedWindmill]] = increaseSpeed(@)]
    ELSE h

\* The heap after the body of case '-', '_'.
DecreaseSelected(h) ==
    IF SelectionValid
    THEN [h EXCEPT ![windmills[selectedWindmill]] = decreaseSpeed(@)]
    ELSE h

\* case '+', '='
KeyIncrease ==
    \E key \in {"+"} :
        /\ KeyEvent(key)
        /\ heap' = IncreaseSelected(heap)
        /\ UNCHANGED <<modeVars, selectedWindmill, windmillCount, nextAddr,
                       released, retiredIds, objects, windmills, clouds,
                       celestialBody, running>>

\* case '-', '_'
KeyDecrease ==
    \E key \in {"-"} :
        /\ KeyEvent(key)
        /\ heap' = DecreaseSelected(heap)
        /\ UNCHANGED <<modeVars, selectedWindmill, windmillCount, nextAddr,
                       released, retiredIds, objects, windmills, clouds,
                       celestialBody, running>>

\* case 'd', 'D'
KeyDay ==
    \E key \in {"d"} :
        /\ KeyEvent(key)
        /\ isDay' = TRUE
        /\ UNCHANGED <<isPaused, animateCelestial, selectedWindmill, sceneVars,
                       running>>

\* case 'n', 'N'
KeyNight ==
    \E key \in {"n"} :
        /\ KeyEvent(key)
        /\ isDay' = FALSE
        /\ UNCHANGED <<isPaused, animateCelestial, selectedWindmill, sceneVars,
                       running>>

\* case 'c', 'C': scene->addCloud(new Cloud(cloudX, cloudY, cloudSpeed))
KeyCloud ==
    \E key \in {"c"} :
    \E cloudX \in RandomFloat(WrapLeft, WrapRight) :
    \E cloudY \in RandomFloat(BandLow, BandHigh) :
    \E cloudSpeed \in RandomFloat(CloudSpeedLow, CloudSpeedHigh) :
        /\ KeyEvent(key)
        /\ heap' = [a \in DOMAIN heap \cup {nextAddr} |->
                       IF a = nextAddr
                       THEN NewCloud(cloudX, cloudY, cloudSpeed, 500)
                       ELSE heap[a]]
        /\ nextAddr' = nextAddr + 1
        /\ clouds' = Append(clouds, nextAddr)
        /\ objects' = Append(objects, nextAddr)
        /\ UNCHANGED <<modeVars, selectedWindmill, windmillCount, released,
                       retiredIds, windmills, celestialBody, running>>

\* case 'w', 'W' with a constructor that does not count the new windmill.
KeyWindmillNoCount ==
    \E key \in {"w"} :
    \E windmillX \in RandomFloat(-8000, 8000) :
    \E windmillY \in RandomFloat(-6000, -3600) :
        /\ KeyEvent(key)
        /\ windmillCount' = windmillCount
        /\ heap' = [a \in DOMAIN heap \cup {nextAddr} |->
                       IF a = nextAddr
                       THEN NewWindmill(windmillX, windmillY, 600, 2400, 1600,
                                        4, windmillCount)
                       ELSE heap[a]]
        /\ nextAddr' = nextAddr + 1
        /\ windmills' = Append(windmills, nextAddr)
        /\ objects' = Append(objects, nextAddr)
        /\ UNCHANGED <<modeVars, selectedWindmill, released, retiredIds,
                       clouds, celestialBody, running>>

\* case 'w', 'W': scene->addWindmill(new Windmill(windmillX, windmillY))
KeyWindmill ==
    \E key \in {"w"} :
    \E windmillX \in RandomFloat(-8000, 8000) :
    \E windmillY \in RandomFloat(-6000, -3600) :
        /\ KeyEvent(key)
        /\ windmillCount' = windmillCount + 1
        /\ heap' = [a \in DOMAIN heap \cup {nextAddr} |->
                       IF a = nextAddr
                       THEN NewWindmill(windmillX, windmillY, 600, 2400, 1600,
                                        4, windmillCount + 1)
                       ELSE heap[a]]
        /\ nextAddr' = nextAddr + 1
        /\ windmills' = Append(windmills, nextAddr)
        /\ objects' = Append(objects, nextAddr)
        /\ UNCHANGED <<modeVars, selectedWindmill, released, retiredIds,
                       clouds, celestialBody, running>>

\* case 's', 'S'
KeySun ==
    \E key \in {"s"} :
        /\ KeyEvent(key)
        /\ animateCelestial' = ~animateCelestial
        /\ UNCHANGED <<isDay, isPaused, selectedWindmill, sceneVars, running>>

\* case 'p', 'P'
KeyPause ==
    \E key \in {"p"} :
        /\ KeyEvent(key)
        /\ isPaused' = ~isPaused
        /\ UNCHANGED <<isDay, animateCelestial, selectedWindmill, sceneVars,
                       running>>

\* A destructor that leaves windmillCount alone.
WindmillsAmongNone(h, objs) ==
    0 * Len(objs)

\* The number of Windmill objects among the objects a loop of deletes destroys:
\* each ~Windmill() decrements windmillCount.
WindmillsAmong(h, objs) ==
    Cardinality({i \in 1..Len(objs) : h[objs[i]].kind = "Windmill"})

\* The ids of the Windmill objects among them.
WindmillIds(h, objs) ==
    {h[objs[i]].id : i \in {j \in 1..Len(objs) : h[objs[j]].kind = "Windmill"}}

\* case 'r', 'R': scene->clear(); Windmill::selectedWindmill = 1
KeyReset ==
    \E key \in {"r"} :
        /\ KeyEvent(key)
        /\ released' = released \o objects
        /\ retiredIds' = retiredIds \cup WindmillIds(heap, objects)
        /\ windmillCount' = windmillCount - WindmillsAmong(heap, objects)
        /\ heap' = [a \in DOMAIN heap \ Range(objects) |-> heap[a]]
        /\ objects' = <<>>
        /\ windmills' = <<>>
        /\ clouds' = <<>>
        /\ celestialBody' = NULL
        /\ selectedWindmill' = 1
        /\ UNCHANGED <<modeVars, nextAddr, running>>

\* A destructor that also deletes through the windmill and cloud views.
KeyQuitDeletesViews ==
    \E key \in {"q"} :
        /\ KeyEvent(key)
        /\ released' = released \o objects \o windmills \o clouds
        /\ retiredIds' = retiredIds \cup WindmillIds(heap, objects)
        /\ windmillCount' = windmillCount - WindmillsAmong(heap, objects)
        /\ heap' = [a \in DOMAIN heap \ Range(objects) |-> heap[a]]
        /\ objects' = <<>>
        /\ windmills' = <<>>
        /\ clouds' = <<>>
        /\ running' = FALSE
        /\ UNCHANGED <<modeVars, nextAddr, celestialBody, selectedWindmill>>

\* case 'q', 'Q', 27: delete scene; exit(0)
KeyQuit ==
    \E key \in {"q"} :
        /\ KeyEvent(key)
        /\ released' = released \o objects
        /\ retiredIds' = retiredIds \cup WindmillIds(heap, objects)
        /\ windmillCount' = windmillCount - WindmillsAmong(heap, objects)
        /\ heap' = [a \in DOMAIN heap \ Range(objects) |-> heap[a]]
        /\ objects' = <<>>
        /\ windmills' = <<>>
        /\ clouds' = <<>>
        /\ running' = FALSE
        /\ UNCHANGED <<modeVars, nextAddr, celestialBody, selectedWindmill>>

\* Any key the switch has no case for: '6' stands for the digits '6' .. '9',
\* which all reach the end of the switch the same way.
KeyOther ==
    \E key \in {"6"} :
        /\ KeyEvent(key)
        /\ UNCHANGED <<modeVars, selectedWindmill, sceneVars, running>>

Next ==
    \/ Tick
    \/ KeySelect
    \/ KeyIncrease
    \/ KeyDecrease
    \/ KeyDay
    \/ KeyNight
    \/ KeyCloud
    \/ KeyWindmill
    \/ KeySun
    \/ KeyPause
    \/ KeyReset
    \/ KeyQuit
    \/ KeyOther

Spec == Init /\ [][Next]_vars

\* ------------------------------------------------------------ mid-run states
\* States the program is in after it has run for a while: each script is a
\* sequence of <<event, n>>, the event ("+", "-" or "tick") dispatched n times
\* in a row from the program's start, with windmill 1 selected throughout.
RunScripts ==
    { <<>>,
      << <<"+", 26>> >>,
      << <<"-", 3>> >>,
      << <<"+", 3>>, <<"tick", 102>> >>,
      << <<"+", 1>>, <<"tick", 2>>, <<"-", 1>>, <<"tick", 177>> >>,
      << <<"tick", 179>> >>,
      << <<"tick", 1199>> >> }

\* The heaps one dispatch of an event can make of the heaps in hs.
Dispatch(hs, event) ==
    UNION { CASE event = "+" -> {IncreaseSelected(h)}
              [] event = "-" -> {DecreaseSelected(h)}
              [] event = "tick" -> UpdateAll(h, objects) : h \in hs }

\* The heaps n dispatches in a row make of them (n >= 1): the first half of
\* the dispatches, then the rest.
RECURSIVE Repeat(_, _, _)
Repeat(hs, event, n) ==
    IF n = 1 THEN Dispatch(hs, event)
    ELSE LET half == Repeat(hs, event, n \div 2)
         IN  IF half = {} THEN {} ELSE Repeat(half, event, n - n \div 2)

\* The heaps a script can make of the heaps in hs, from its step i on.
RECURSIVE Replay(_, _, _)
Replay(hs, script, i) ==
    IF i > Len(script) THEN hs
    ELSE Replay(Repeat(hs, script[i][1], script[i][2]), script, i + 1)

LastOf(script) ==
    IF script = <<>> THEN [type |-> "none", key |-> ""]
    ELSE LET event == script[Len(script)][1]
         IN  IF event = "tick" THEN [type |-> "tick", key |-> ""]
             ELSE [type |-> "key", key |-> event]

InitRun ==
    /\ isDay = TRUE
    /\ isPaused = FALSE
    /\ animateCelestial = TRUE
    /\ windmillCount = 3
    /\ selectedWindmill = 1
    /\ nextAddr = 8
    /\ released = <<>>
    /\ retiredIds = {}
    /\ objects = <<1, 2, 3, 4, 5, 6, 7>>
    /\ windmills = <<1, 2, 3>>
    /\ clouds = <<4, 5, 6>>
    /\ celestialBody = 7
    /\ running = TRUE
    /\ budget = MaxRunEvents
    /\ \E script \in RunScripts :
           /\ heap \in Replay({InitObjects}, script, 1)
           /\ lastEvent = LastOf(script)

SpecRun == InitRun /\ [][Next]_vars

\* ------------------------------------------------------- the Scene by itself
\* The Scene class driven through its public member functions by any caller,
\* not only by initScene and keyboard: each add is handed a newly constructed
\* entity, as in every call the program makes.

\* scene = new Scene(), before anything is added; no Windmill exists yet.
InitFresh ==
    /\ isDay = TRUE
    /\ isPaused = FALSE
    /\ animateCelestial = TRUE
    /\ windmillCount = 0
    /\ selectedWindmill = 1
    /\ heap = <<>>
    /\ nextAddr = 1
    /\ released = <<>>
    /\ retiredIds = {}
    /\ objects = <<>>
    /\ windmills = <<>>
    /\ clouds = <<>>
    /\ celestialBody = NULL
    /\ running = TRUE
    /\ lastEvent = [type |-> "none", key |-> ""]
    /\ budget = MaxSceneCalls

\* A call of a member function of the Scene, while the Scene exists.
SceneCall(name) ==
    /\ running
    /\ budget > 0
    /\ budget' = budget - 1
    /\ lastEvent' = [type |-> "call", key |-> name]

\* The heap with a new object at the next address.
Allocate(h, addr, obj) ==
    [a \in DOMAIN h \cup {addr} |-> IF a = addr THEN obj ELSE h[a]]

\* scene->addWindmill(new Windmill(...))
AddWindmill ==
    /\ SceneCall("addWindmill")
    /\ windmillCount' = windmillCount + 1
    /\ heap' = Allocate(heap, nextAddr,
                        NewWindmill(-5000, -4000, 600, 2400, 1600, 4,
                                    windmillCount + 1))
    /\ nextAddr' = nextAddr + 1
    /\ windmills' = Append(windmills, nextAddr)
    /\ objects' = Append(objects, nextAddr)
    /\ UNCHANGED <<modeVars, selectedWindmill, released, retiredIds, clouds,
                   celestialBody, running>>

\* scene->addCloud(new Cloud(...))
AddCloud ==
    \E posX \in {-6000, WrapRight} :
        /\ SceneCall("addCloud")
        /\ heap' = Allocate(heap, nextAddr, NewCloud(posX, 4400, 6, 500))
        /\ nextAddr' = nextAddr + 1
        /\ clouds' = Append(clouds, nextAddr)
        /\ objects' = Append(objects, nextAddr)
        /\ UNCHANGED <<modeVars, selectedWindmill, windmillCount, released,
                       retiredIds, windmills, celestialBody, running>>

\* scene->setCelestialBody(new CelestialBody(...))
SetCelestialBody ==
    /\ SceneCall("setCelestialBody")
    /\ heap' = Allocate(heap, nextAddr,
                        NewCelestialBody(7000, 5000, 600, <<20, 19, 0>>))
    /\ nextAddr' = nextAddr + 1
    /\ celestialBody' = nextAddr
    /\ objects' = Append(objects, nextAddr)
    /\ UNCHANGED <<modeVars, selectedWindmill, windmillCount, released,
                   retiredIds, windmills, clouds, running>>

\* scene->updateAll()
CallUpdateAll ==
    /\ SceneCall("updateAll")
    /\ heap' \in UpdateAll(heap, objects)
    /\ UNCHANGED <<modeVars, selectedWindmill, windmillCount, nextAddr,
                   released, retiredIds, objects, windmills, clouds,
                   celestialBody, running>>

\* A clear() that forgets to reset the celestial-body pointer.
ClearKeepsCelestialBody ==
    /\ SceneCall("clear")
    /\ released' = released \o objects
    /\ retiredIds' = retiredIds \cup WindmillIds(heap, objects)
    /\ windmillCount' = windmillCount - WindmillsAmong(heap, objects)
    /\ heap' = [a \in DOMAIN heap \ Range(objects) |-> heap[a]]
    /\ objects' = <<>>
    /\ windmills' = <<>>
    /\ clouds' = <<>>
    /\ UNCHANGED <<modeVars, selectedWindmill, nextAddr, running,
                   celestialBody>>

\* scene->clear()
Clear ==
    /\ SceneCall("clear")
    /\ released' = released \o objects
    /\ retiredIds' = retiredIds \cup WindmillIds(heap, objects)
    /\ windmillCount' = windmillCount - WindmillsAmong(heap, objects)
    /\ heap' = [a \in DOMAIN heap \ Range(objects) |-> heap[a]]
    /\ objects' = <<>>
    /\ windmills' = <<>>
    /\ clouds' = <<>>
    /\ celestialBody' = NULL
    /\ UNCHANGED <<modeVars, selectedWindmill, nextAddr, running>>

\* delete scene: Scene::~Scene, after which no member function is called.
Destroy ==
    /\ SceneCall("~Scene")
    /\ released' = released \o objects
    /\ retiredIds' = retiredIds \cup WindmillIds(heap, objects)
    /\ windmillCount' = windmillCount - WindmillsAmong(heap, objects)
    /\ heap' = [a \in DOMAIN heap \ Range(objects) |-> heap[a]]
    /\ objects' = <<>>
    /\ windmills' = <<>>
    /\ clouds' = <<>>
    /\ running' = FALSE
    /\ UNCHANGED <<modeVars, selectedWindmill, nextAddr, celestialBody>>

NextScene ==
    \/ AddWindmill
    \/ AddCloud
    \/ SetCelestialBody
    \/ CallUpdateAll
    \/ Clear
    \/ Destroy

SpecScene == InitFresh /\ [][NextScene]_vars

\* ================================================================ claims
\* The windmill at 1-based position i of Scene::windmills.
WindmillAt(i) == heap[windmills[i]]

DigitKeys == {"1", "2", "3", "4", "5", "6"}

\* The step is the keyboard callback for key.
Pressed(key) ==
    /\ budget' = budget - 1
    /\ lastEvent' = [type |-> "key", key |-> key]

LastKey(key) == lastEvent = [type |-> "key", key |-> key]

\* The step is the timer callback.
Ticked ==
    /\ budget' = budget - 1
    /\ lastEvent'.type = "tick"

\* C1 (as claimed): while the program runs, selectedWindmill is 0 or the
\* 1-based index of a windmill in Scene::windmills.
C1_SelectionLive ==
    running =>
        \/ selectedWindmill = 0
        \/ 1 <= selectedWindmill /\ selectedWindmill <= Len(windmills)

\* C2 (as claimed): right after the reset key the scene holds the default
\* configuration of program start: 3 windmills, 3 clouds, the celestial body,
\* and the default selection.
C2_ResetRepopulates ==
    LastKey("r") =>
        /\ Len(windmills) = 3
        /\ Len(clouds) = 3
        /\ celestialBody # NULL
        /\ Len(objects) = 7
        /\ selectedWindmill = 1

\* C3 (as claimed): no live windmill has an identity that a destroyed
\* windmill was given.
C3_IdentityNeverReused ==
    \A i \in 1..Len(windmills) : WindmillAt(i).id \notin retiredIds

\* C3 (amended): the identities of the live windmills are pairwise different
\* and increase in the order of construction.
C3_LiveIdentitiesIncrease ==
    \A i, j \in 1..Len(windmills) : i < j => WindmillAt(i).id < WindmillAt(j).id

\* C3 witness: a windmill added after a reset lives beside none, with the
\* identity a destroyed windmill had.
C3_Witness ==
    /\ LastKey("w")
    /\ Len(windmills) = 2
    /\ WindmillAt(1).id \in retiredIds
    /\ WindmillAt(2).id \in retiredIds

\* C4: every windmill's rotationSpeed is within [0.5, 15.0].
C4_SpeedInRange ==
    \A a \in DOMAIN heap :
        heap[a].kind = "Windmill" =>
            /\ MinSpeed <= heap[a].rotationSpeed
            /\ heap[a].rotationSpeed <= MaxSpeed

\* C4 witness: increaseSpeed has been called on a windmill already at 15.0.
C4_Witness ==
    /\ budget = MaxRunEvents - 1
    /\ LastKey("+")
    /\ WindmillAt(1).rotationSpeed = MaxSpeed

\* C5: a timer tick while isPaused is set leaves every field of every entity
\* unchanged.
C5_PausedTickChangesNothing ==
    [][(Ticked /\ isPaused) => heap' = heap]_vars

\* C5 witness: a tick has run over a scene with entities while paused.
C5_Witness ==
    /\ lastEvent.type = "tick"
    /\ isPaused
    /\ Len(objects) = 7

\* C6: every windmill's bladeAngle and the celestial body's angle are in
\* [0, 360).
C6_AnglesInRange ==
    \A a \in DOMAIN heap :
        /\ heap[a].kind = "Windmill" =>
               0 <= heap[a].bladeAngle /\ heap[a].bladeAngle < FullTurn
        /\ heap[a].kind = "CelestialBody" =>
               0 <= heap[a].angle /\ heap[a].angle < FullTurn

\* C6 witness: a tick has taken a windmill of speed 2.0 from 359.0 to 1.0,
\* beside a celestial body that has turned too.
C6_Witness ==
    /\ budget = MaxRunEvents - 1
    /\ lastEvent.type = "tick"
    /\ WindmillAt(1).rotationSpeed = 40
    /\ WindmillAt(1).bladeAngle = 20
    /\ heap[celestialBody].angle > 0

\* C7: an unpaused tick takes a cloud whose x + speed exceeds 450 to x = -450
\* with y in [150, 280], and any other cloud to x + speed with y unchanged; no
\* cloud is left beyond 450.
C7_CloudWraps ==
    [][(Ticked /\ ~isPaused) =>
          \A a \in Range(clouds) :
              /\ IF heap[a].x + heap[a].speed > WrapRight
                 THEN /\ heap'[a].x = WrapLeft
                      /\ BandLow <= heap'[a].y /\ heap'[a].y <= BandHigh
                 ELSE /\ heap'[a].x = heap[a].x + heap[a].speed
                      /\ heap'[a].y = heap[a].y
              /\ heap'[a].x <= WrapRight]_vars

\* C7 witness: an unpaused tick has just put a cloud on the left boundary.
C7_Witness ==
    /\ lastEvent.type = "tick"
    /\ ~isPaused
    /\ \E a \in Range(clouds) : heap[a].x = WrapLeft

\* C8 (as claimed): after a digit key k with k <= number of windmills,
\* selectedWindmill is k.
C8_DigitSelects ==
    \A key \in DigitKeys :
        (LastKey(key) /\ DigitValue(key) <= Len(windmills)) =>
            selectedWindmill = DigitValue(key)

\* C8 (amended): a digit key k with k <= number of windmills sets
\* selectedWindmill to k when k <= 5, and leaves it as it was when k >= 6.
C8_DigitSelectsUpToFive ==
    [][\A key \in DigitKeys :
          (Pressed(key) /\ DigitValue(key) <= Len(windmills)) =>
              selectedWindmill' =
                  IF DigitValue(key) <= 5 THEN DigitValue(key)
                  ELSE selectedWindmill]_vars

\* C8 witness: key '5' has selected the fifth of five windmills.
C8_Witness ==
    /\ LastKey("5")
    /\ Len(windmills) = 5
    /\ selectedWindmill = 5

\* C9: a digit key greater than the number of windmills changes nothing.
C9_DigitOutOfRangeIsNoOp ==
    [][\A key \in DigitKeys :
          (Pressed(key) /\ DigitValue(key) > Len(windmills)) =>
              UNCHANGED <<modeVars, selectedWindmill, sceneVars, running>>]_vars

\* C9 witness: key '4' has been pressed with three windmills and the second
\* one selected.
C9_Witness ==
    /\ LastKey("4")
    /\ Len(windmills) = 3
    /\ selectedWindmill = 2

Clamp(s) ==
    IF s > MaxSpeed THEN MaxSpeed ELSE IF s < MinSpeed THEN MinSpeed ELSE s

\* The step changes the speed of the selected windmill by delta, clamped, and
\* nothing else; with no valid selection it changes nothing.
OnlySelectedSpeed(delta) ==
    /\ UNCHANGED <<modeVars, selectedWindmill, windmillCount, nextAddr,
                   released, retiredIds, objects, windmills, clouds,
                   celestialBody, running>>
    /\ DOMAIN heap' = DOMAIN heap
    /\ \A a \in DOMAIN heap :
           IF /\ 1 <= selectedWindmill
              /\ selectedWindmill <= Len(windmills)
              /\ a = windmills[selectedWindmill]
           THEN heap'[a] =
                    [heap[a] EXCEPT !.rotationSpeed = Clamp(@ + delta)]
           ELSE heap'[a] = heap[a]

\* C10: a speed key changes the rotationSpeed of the selected windmill by
\* +0.5 or -0.5, clamped to [0.5, 15.0], and nothing else; with no windmill
\* selected or the selection out of range it changes nothing.
C10_SpeedKeyChangesOnlySelected ==
    [][/\ Pressed("+") => OnlySelectedSpeed(SpeedStep)
       /\ Pressed("-") => OnlySelectedSpeed(0 - SpeedStep)]_vars

\* C10 witness: windmill 2 selected and increased three times: 2.0, 3.5, 2.0.
C10_Witness ==
    /\ LastKey("+")
    /\ selectedWindmill = 2
    /\ Len(windmills) = 3
    /\ WindmillAt(1).rotationSpeed = 40
    /\ WindmillAt(2).rotationSpeed = 70
    /\ WindmillAt(3).rotationSpeed = 40

\* The last step was a call of the Scene member function `name`.
LastCall(name) == lastEvent = [type |-> "call", key |-> name]

\* The members of a Scene as its constructor leaves them.
SceneIsFresh ==
    /\ objects = <<>>
    /\ windmills = <<>>
    /\ clouds = <<>>
    /\ celestialBody = NULL

\* C11: right after Scene.clear(), whatever had been added before, the Scene's
\* members are those of a freshly constructed Scene (master sequence, windmill
\* view and cloud view empty, no celestial body), no entity it was handed is
\* still allocated, and an updateAll() visits nothing: it leaves every object
\* as it is.
C11_ClearGivesFreshScene ==
    LastCall("clear") =>
        /\ SceneIsFresh
        /\ DOMAIN heap = {}
        /\ UpdateAll(heap, objects) = {heap}

\* A clear() of a Scene that held three entities, a windmill among them.
C11_Witness ==
    /\ LastCall("clear")
    /\ Len(released) = 3
    /\ retiredIds = {1}
    /\ SceneIsFresh

\* Every entity constructed so far: addresses are handed out in order.
Handed == 1..(nextAddr - 1)

\* C12: every entity handed to the Scene is released exactly once by the time
\* the Scene has been destroyed, whatever adds and clear() calls came before:
\* no address is deleted twice, a deleted entity is no longer allocated, and
\* after 'q' every entity ever constructed has been deleted and none is left.
C12_ReleasedExactlyOnce ==
    /\ \A i, j \in 1..Len(released) : released[i] = released[j] => i = j
    /\ Range(released) \cap DOMAIN heap = {}
    /\ Range(released) \cup DOMAIN heap = Handed
    /\ ~running => Range(released) = Handed /\ DOMAIN heap = {}

\* 'r', then an entity added, then 'q': the celestial-body pointer is only
\* ever reset by clear(), so clear() ran before the destructor did.
C12_Witness ==
    /\ ~running
    /\ LastKey("q")
    /\ celestialBody = NULL
    /\ Len(released) = 8

\* The celestial bodies in the master sequence, the one updateAll() and
\* drawAll() iterate.
CelestialBodiesHeld ==
    {objects[i] : i \in {j \in 1..Len(objects) :
                             heap[objects[j]].kind = "CelestialBody"}}

\* C13: the Scene holds at most one celestial body: after any sequence of
\* Scene calls, two or more setCelestialBody calls without a clear() in
\* between included, the master sequence contains at most one celestial body,
\* namely the one the celestial-body pointer refers to.
C13_AtMostOneCelestialBody ==
    running =>
        /\ Cardinality(CelestialBodiesHeld) <= 1
        /\ CelestialBodiesHeld = IF celestialBody = NULL THEN {}
                                 ELSE {celestialBody}

\* The windmills that draw the selection ring: those whose id is the selection.
RingDrawers == {i \in 1..Len(windmills) : WindmillAt(i).id = selectedWindmill}

\* C14: in every state reachable by key events and ticks, the id of each live
\* windmill is its 1-based position in the Scene's windmill view and
\* windmillCount is the length of the view, so the windmill that draws the
\* selection ring (id = selectedWindmill) is the one the speed keys and the
\* HUD address by index, windmills[selectedWindmill - 1] in the code.
C14_IdentityIsPosition ==
    /\ windmillCount = Len(windmills)
    /\ \A i \in 1..Len(windmills) : WindmillAt(i).id = i
    /\ RingDrawers = {selectedWindmill} \cap (1..Len(windmills))

\* A windmill added with 'w', selected with '4' and sped up with '+': the
\* fourth of the view is the one with id 4 and the one whose speed changed.
C14_Witness ==
    /\ LastKey("+")
    /\ Len(windmills) = 4
    /\ selectedWindmill = 4
    /\ RingDrawers = {4}
    /\ WindmillAt(4).rotationSpeed = InitSpeed + SpeedStep

====
